---- MODULE Spec2Model ----
(***************************************************************************)
(* Model of the scraping orchestration of scrape-channel-listings:        *)
(*   - scrapeAllProviders / scrapeProvider (src/index.ts and the earlier   *)
(*     queue-based entry point), the wave scheduler over the four          *)
(*     registered providers;                                               *)
(*   - runScraper, setupBrowser, setupPage and retry (utils/scraper.ts,    *)
(*     in its two forms: navigation outside or inside the retried block).  *)
(* Spec is the scheduler, with runScraper settling as the provider's fate  *)
(* decides; RunSpec is one runScraper call, await by await; NormSpec is     *)
(* processData and normalizeChannelName over raw batches, with channel     *)
(* names and numbers as sequences of characters.                           *)
(***************************************************************************)
EXTENDS Integers, Sequences, FiniteSets, TLC

(* ---------------------------------------------------------------------- *)
(* Bounds of the model                                                    *)
(* ---------------------------------------------------------------------- *)
\* largest value of the maxConcurrent option that is tried
MaxK == 5
\* the option is also tried with 0 and with the negatives down to -MaxNegK
MaxNegK == 1
\* the clock advances by 0..MaxTick between two events
MaxTick == 1
\* a call is followed for at most MaxIter iterations of its wave loop
MaxIter == 6
\* largest maxAttempts (the `retries` argument of retry) that is tried
MaxAttempts == 3
\* maxAttempts is also tried with 0 and with the negatives down to -MaxNegAttempts
MaxNegAttempts == 1
\* the retried function fails on its first 0..MaxFails calls
MaxFails == 3
\* at most MaxWriteFailures runScraper calls of a run fail writing their file
MaxWriteFailures == 1
\* raw channel names of every length up to MaxNameLen are tried
MaxNameLen == 3
\* raw batches of up to MaxBatch records are tried
MaxBatch == 3

(* ---------------------------------------------------------------------- *)
(* Program constants                                                      *)
(* ---------------------------------------------------------------------- *)
\* CONFIG.RETRY.DELAY, the base delay in milliseconds
RETRY_DELAY == 1000

(* ---------------------------------------------------------------------- *)
(* Helpers                                                                *)
(* ---------------------------------------------------------------------- *)
Min(a, b) == IF a < b THEN a ELSE b

Max(a, b) == IF a > b THEN a ELSE b

\* Array.prototype.slice(start, end): negative indexes count from the end
RelIndex(n, k) == IF k < 0 THEN Max(n + k, 0) ELSE Min(k, n)

Slice(s, start, end) ==
    LET from == RelIndex(Len(s), start)
        to   == RelIndex(Len(s), end)
    IN  IF from < to THEN SubSeq(s, from + 1, to) ELSE << >>

Range(s) == {s[j] : j \in 1..Len(s)}

RECURSIVE SumSeq(_)
SumSeq(s) == IF s = << >> THEN 0 ELSE Head(s) + SumSeq(Tail(s))

RECURSIVE SelectSeqOf(_, _)
\* Array.prototype.filter on a sequence of ScraperResult, by the success flag
SelectSeqOf(s, flag) ==
    IF s = << >> THEN << >>
    ELSE IF Head(s).success = flag
         THEN <<Head(s)>> \o SelectSeqOf(Tail(s), flag)
         ELSE SelectSeqOf(Tail(s), flag)

(* ---------------------------------------------------------------------- *)
(* The provider registry                                                  *)
(* ---------------------------------------------------------------------- *)
\* Object.entries(providers) / SCRAPERS, in registration order
providerEntries == <<"DIRECTV", "DISH", "SKY", "Virgin">>

Providers == Range(providerEntries)

\* the channels runScraper resolves with for a provider whose scrape succeeds
Chan(num, name) == [number |-> num, name |-> name]

lineup(p) ==
    CASE p = "DIRECTV" -> <<Chan("2", "CBS"), Chan("4", "NBC")>>
      [] p = "DISH"    -> <<Chan("5", "NICKELODEON")>>
      [] p = "SKY"     -> <<Chan("101", "BBC ONE"), Chan("105", "Channel5"), Chan("106", "SKY SHOWCASE")>>
      [] OTHER         -> << >>

\* the error runScraper rejects with for a provider whose scrape fails
errorOf(p) == "Error: " \o p \o " failed"

\* the error writeOutputToFile rethrows when the provider's file cannot be written
writeErrorOf(p) == "Error: cannot write the output of " \o p

\* what a runScraper call does: resolve with the channels, reject with the
\* scrape's error, or, when it has an output file, reject with the write error
Fates == {"ok", "throw", "writeThrow"}

\* rejectionOf losing the write error: every rejection is the scrape error
rejectionOfScrapeOnly(p, f) == errorOf(p)

\* the error a runScraper call of fate f rejects with
rejectionOf(p, f) == IF f = "writeThrow" THEN writeErrorOf(p) ELSE errorOf(p)

SchedulerKinds == {"slice", "queue"}

\* property names every object literal inherits from Object.prototype
ObjectPrototypeKeys == {"constructor", "toString"}

\* the names scrapeProvider is called with: the registered ones, an unknown
\* one, a registered one in another case, and the inherited property names
RequestedNames == Providers \cup {"UNKNOWN", "directv"} \cup ObjectPrototypeKeys

\* String.prototype.toLowerCase on the names above
toLowerCase(name) ==
    CASE name = "DIRECTV" -> "directv"
      [] name = "DISH"    -> "dish"
      [] name = "SKY"     -> "sky"
      [] name = "Virgin"  -> "virgin"
      [] name = "UNKNOWN" -> "unknown"
      [] OTHER            -> name

(* ---------------------------------------------------------------------- *)
(* State of a scrapeAllProviders / scrapeProvider call                     *)
(* ---------------------------------------------------------------------- *)
VARIABLES
    sched,        \* which entry point runs: "slice" (src/index.ts) or "queue" (earlier index.ts)
    entry,        \* the function called: "all" (scrapeAllProviders) or "one" (scrapeProvider)
    providerName, \* the argument of scrapeProvider
    options,      \* the ScrapingOptions argument
    fate,         \* per provider: what its runScraper call will do
    pc,           \* "init", "await" (in an await), "done" (settled)
    maxConcurrent,\* the local of scrapeAllProviders
    i,            \* loop index of the slice scheduler
    queue,        \* pending scrapers of the queue scheduler
    inProgress,   \* the current wave: batch / inProgress, in submission order
    settled,      \* settlement of every settled task promise of the current wave
    results,      \* the accumulated ScraperResult list
    taskState,    \* per provider: Pending, Running, Succeeded, Failed
    calls,        \* per provider: number of runScraper invocations
    foreignCalls, \* runScraper invocations with a config that is no provider's
    waveOf,       \* per provider: the wave (0-based) that started it, -1 before
    waves,        \* number of waves started so far
    now,          \* Date.now()
    startTime,    \* Date.now() at the call
    startAt,      \* per provider: Date.now() when its task body started
    returned,     \* how the call settled
    launches,     \* number of chromium.launch() calls so far
    browserOf,    \* per provider: the browser its runScraper call launched, 0 before
    written,      \* the files written so far: <<provider, writer>>
    cliPc         \* the CLI entry around the call: "waiting", "exit0", "exit1"

schedVars == <<sched, entry, providerName, options, fate, pc, maxConcurrent, i, queue,
               inProgress, settled, results, taskState, calls, foreignCalls, waveOf, waves, now,
               startTime, startAt, returned, launches, browserOf, written, cliPc>>

OptionValues ==
    {[writeFiles |-> w, hasMaxConcurrent |-> TRUE, maxConcurrent |-> k] :
        w \in BOOLEAN, k \in (0 - MaxNegK)..MaxK}
    \cup {[writeFiles |-> w, hasMaxConcurrent |-> FALSE, maxConcurrent |-> 0] : w \in BOOLEAN}

NoResults == [p \in {} |-> 0]

\* the state before the call
SchedIdle ==
    /\ pc = "init"
    /\ maxConcurrent = 0
    /\ i = 0
    /\ queue = << >>
    /\ inProgress = << >>
    /\ settled = NoResults
    /\ results = << >>
    /\ taskState = [p \in Providers |-> "Pending"]
    /\ calls = [p \in Providers |-> 0]
    /\ foreignCalls = 0
    /\ waveOf = [p \in Providers |-> 0 - 1]
    /\ waves = 0
    /\ now = 0
    /\ startTime = 0
    /\ startAt = [p \in Providers |-> 0]
    /\ returned = [kind |-> "none"]
    /\ launches = 0
    /\ browserOf = [p \in Providers |-> 0]
    /\ written = {}
    /\ cliPc = "waiting"

\* whether the config passed to runScraper has an outputFile: the provider
\* configs all have one and src/index.ts passes them as they are;
\* executeScraper keeps it only when writeFiles is set
OutputFileSet(kind, opt) == IF kind = "slice" THEN TRUE ELSE opt.writeFiles

\* the fates of the providers' runScraper calls: a write can fail only
\* where a file is written
FateValues(kind, opt) ==
    {f \in [Providers -> Fates] :
        LET failing == {p \in Providers : f[p] = "writeThrow"}
        IN  /\ Cardinality(failing) <= MaxWriteFailures
            /\ failing # {} => OutputFileSet(kind, opt)}

SchedInit ==
    /\ sched \in SchedulerKinds
    /\ \/ /\ entry = "all"
          /\ providerName = ""
          /\ options \in OptionValues
          /\ fate \in FateValues(sched, options)
       \/ /\ entry = "one"
          /\ providerName \in RequestedNames
          /\ options \in {o \in OptionValues : ~o.hasMaxConcurrent}
          /\ fate \in {f \in FateValues(sched, options) :
                        Cardinality({p \in Providers : f[p] # "ok"}) <= 1}
    /\ SchedIdle

(* ---------------------------------------------------------------------- *)
(* Task bodies and promises                                                *)
(* ---------------------------------------------------------------------- *)
Fulfilled(v) == [status |-> "fulfilled", value |-> v]

Rejected(e) == [status |-> "rejected", reason |-> e]

\* TaskBody without its try/catch: a failing runScraper rejects the task promise
TaskBodyNoCatch(name, f, start, end) ==
    IF f = "ok"
    THEN Fulfilled([name |-> name, success |-> TRUE, duration |-> end - start,
                    channelCount |-> Len(lineup(name)), channels |-> lineup(name)])
    ELSE Rejected(rejectionOf(name, f))

\* TaskBody whose catch branch records a fresh error instead of the caught one
TaskBodyFreshError(name, f, start, end) ==
    IF f = "ok"
    THEN Fulfilled([name |-> name, success |-> TRUE, duration |-> end - start,
                    channelCount |-> Len(lineup(name)), channels |-> lineup(name)])
    ELSE Fulfilled([name |-> name, success |-> FALSE, duration |-> end - start,
                    error |-> "Error: scrape failed"])

\* TaskBody whose catch branch returns an empty listing next to the error
TaskBodyEmptyListing(name, f, start, end) ==
    IF f = "ok"
    THEN Fulfilled([name |-> name, success |-> TRUE, duration |-> end - start,
                    channelCount |-> Len(lineup(name)), channels |-> lineup(name)])
    ELSE Fulfilled([name |-> name, success |-> FALSE, duration |-> end - start,
                    channelCount |-> 0, channels |-> << >>,
                    error |-> rejectionOf(name, f)])

\* the promise of a task body (the async arrow of batch.map, executeScraper,
\* the try/catch of scrapeProvider): fulfilled with the try branch's result
\* when runScraper resolved, with the catch branch's result when it rejected
TaskBody(name, f, start, end) ==
    IF f = "ok"
    THEN Fulfilled([name |-> name, success |-> TRUE, duration |-> end - start,
                    channelCount |-> Len(lineup(name)), channels |-> lineup(name)])
    ELSE Fulfilled([name |-> name, success |-> FALSE, duration |-> end - start,
                    error |-> rejectionOf(name, f)])

RejectedIn(batch, done) ==
    {batch[j] : j \in {k \in 1..Len(batch) : batch[k] \in DOMAIN done /\ done[batch[k]].status = "rejected"}}

\* Promise.all settles when every promise is fulfilled or one is rejected
WaveSettled(batch, done) ==
    \/ \A j \in 1..Len(batch) : batch[j] \in DOMAIN done
    \/ RejectedIn(batch, done) # {}

\* BatchResults in the reverse of the promises' order
BatchResultsReversed(batch, done) ==
    [j \in 1..Len(batch) |-> done[batch[Len(batch) + 1 - j]].value]

\* Promise.all's value: the values in the order of the promises
BatchResults(batch, done) == [j \in 1..Len(batch) |-> done[batch[j]].value]

(* ---------------------------------------------------------------------- *)
(* scrapeAllProviders                                                      *)
(* ---------------------------------------------------------------------- *)
\* EffectiveMaxConcurrent never exceeding its default
EffectiveMaxConcurrentCapped(kind, opt) ==
    IF kind = "slice"
    THEN IF opt.hasMaxConcurrent /\ opt.maxConcurrent # 0 THEN Min(opt.maxConcurrent, 2) ELSE 2
    ELSE IF opt.hasMaxConcurrent THEN Min(opt.maxConcurrent, 4) ELSE 4

\* the effective concurrency: `options?.maxConcurrent || 2` in src/index.ts,
\* the destructuring default `maxConcurrent = 4` in the queue scheduler
EffectiveMaxConcurrent(kind, opt) ==
    IF kind = "slice"
    THEN IF opt.hasMaxConcurrent /\ opt.maxConcurrent # 0 THEN opt.maxConcurrent ELSE 2
    ELSE IF opt.hasMaxConcurrent THEN opt.maxConcurrent ELSE 4

\* BatchAt taking one task too many: slice(i, i + maxConcurrent + 1), `<=` for `<`
BatchAtOneMore(kind, idx, q, k) ==
    IF kind = "slice"
    THEN Slice(providerEntries, idx, idx + k + 1)
    ELSE IF k >= 0 THEN SubSeq(q, 1, Min(k + 1, Len(q))) ELSE << >>

\* the wave the loop head takes: providerEntries.slice(i, i + maxConcurrent),
\* or the scrapers shifted off the queue while inProgress.length < maxConcurrent
BatchAt(kind, idx, q, k) ==
    IF kind = "slice"
    THEN Slice(providerEntries, idx, idx + k)
    ELSE IF k > 0 THEN SubSeq(q, 1, Min(k, Len(q))) ELSE << >>

\* LoopContinues with `<=` for `<`
LoopContinuesOffByOne(kind, idx, q) ==
    IF kind = "slice" THEN idx <= Len(providerEntries) ELSE Len(q) >= 0

\* the loop condition (inProgress is empty at the loop head)
LoopContinues(kind, idx, q) ==
    IF kind = "slice" THEN idx < Len(providerEntries) ELSE Len(q) > 0

\* NextIndex stepping one too far
NextIndexSkipping(kind, idx, k) == IF kind = "slice" THEN idx + k + 1 ELSE idx

\* the loop's step: i += maxConcurrent
NextIndex(kind, idx, k) == IF kind = "slice" THEN idx + k ELSE idx

\* the summary statistics computed after the loop
TotalDuration(kind, res, start, end) ==
    IF kind = "slice" THEN end - start
    ELSE SumSeq([j \in 1..Len(res) |-> res[j].duration])

\* TotalChannels counting the listings of the failed providers too
TotalChannelsOfAll(res) == SumSeq([j \in 1..Len(res) |-> Len(lineup(res[j].name))])

\* results.reduce((sum, r) => sum + (r.channelCount || 0), 0)
TotalChannels(res) ==
    SumSeq([j \in 1..Len(res) |-> IF res[j].success THEN res[j].channelCount ELSE 0])

\* SuccessRate counting the failed results
SuccessRateOfFailures(kind, res) ==
    LET ok == Len(SelectSeqOf(res, FALSE))
    IN  IF kind = "slice"
        THEN [format |-> "percent", tenths |-> (ok * 1000) \div Len(res)]
        ELSE [format |-> "ratio", succeeded |-> ok, total |-> Len(res)]

\* the successRate of the summary: a percentage with one decimal, or "ok/total"
SuccessRate(kind, res) ==
    LET ok == Len(SelectSeqOf(res, TRUE))
    IN  IF kind = "slice"
        THEN [format |-> "percent", tenths |-> (ok * 1000) \div Len(res)]
        ELSE [format |-> "ratio", succeeded |-> ok, total |-> Len(res)]

RECURSIVE FlatChannels(_)
FlatChannels(res) ==
    IF res = << >> THEN << >> ELSE Head(res).channels \o FlatChannels(Tail(res))

\* ReturnValue listing an entry for the failed providers too
ReturnValueWithFailed(kind, opt, res, start, end) ==
    IF opt.writeFiles
    THEN [kind |-> "summary",
          results |-> res,
          totalDuration |-> TotalDuration(kind, res, start, end),
          successRate |-> SuccessRate(kind, res),
          totalChannels |-> TotalChannels(res),
          failedScrapers |-> SelectSeqOf(res, FALSE)]
    ELSE IF kind = "slice"
         THEN [kind |-> "providerChannels",
               list |-> [j \in 1..Len(res) |->
                           [provider |-> res[j].name,
                            channels |-> IF res[j].success THEN res[j].channels ELSE << >>]]]
         ELSE [kind |-> "channels", list |-> FlatChannels(SelectSeqOf(res, TRUE))]

\* the value scrapeAllProviders resolves with
ReturnValue(kind, opt, res, start, end) ==
    IF opt.writeFiles
    THEN [kind |-> "summary",
          results |-> res,
          totalDuration |-> TotalDuration(kind, res, start, end),
          successRate |-> SuccessRate(kind, res),
          totalChannels |-> TotalChannels(res),
          failedScrapers |-> SelectSeqOf(res, FALSE)]
    ELSE LET good == SelectSeqOf(res, TRUE)
         IN  IF kind = "slice"
             THEN [kind |-> "providerChannels",
                   list |-> [j \in 1..Len(good) |->
                               [provider |-> good[j].name, channels |-> good[j].channels]]]
             ELSE [kind |-> "channels", list |-> FlatChannels(good)]

\* NewBrowser handing out one pooled browser
NewBrowserPooled(count, pos) == 1

\* the browser of the pos-th chromium.launch() after count earlier ones:
\* every launch creates a browser of its own
NewBrowser(count, pos) == count + pos

\* position of p in batch
PositionIn(batch, p) == CHOOSE j \in 1..Len(batch) : batch[j] = p

\* a set of task bodies starts: each runs up to its `await runScraper(...)`,
\* and each runScraper up to the await of its own chromium.launch()
StartTasks(batch) ==
    /\ launches' = launches + Len(batch)
    /\ browserOf' = [p \in Providers |->
                        IF p \in Range(batch)
                        THEN NewBrowser(launches, PositionIn(batch, p))
                        ELSE browserOf[p]]
    /\ taskState' = [p \in Providers |->
                        IF p \in Range(batch) THEN "Running" ELSE taskState[p]]
    /\ calls' = [p \in Providers |->
                        IF p \in Range(batch) THEN calls[p] + 1 ELSE calls[p]]
    /\ waveOf' = [p \in Providers |->
                        IF p \in Range(batch) THEN waves ELSE waveOf[p]]
    /\ startAt' = [p \in Providers |->
                        IF p \in Range(batch) THEN now ELSE startAt[p]]
    /\ waves' = waves + 1

\* the loop head, reached at the call and after every wave: start the next
\* wave and await it, or leave the loop and return
LoopHead(idx, q, res) ==
    IF LoopContinues(sched, idx, q)
    THEN LET batch == BatchAt(sched, idx, q, maxConcurrent')
         IN  /\ inProgress' = batch
             /\ queue' = IF sched = "queue" THEN SubSeq(q, Len(batch) + 1, Len(q)) ELSE q
             /\ StartTasks(batch)
             /\ pc' = "await"
             /\ returned' = returned
    ELSE /\ pc' = "done"
         /\ returned' = ReturnValue(sched, options, res, startTime', now)
         /\ inProgress' = << >>
         /\ queue' = q
         /\ UNCHANGED <<taskState, calls, waveOf, startAt, waves, launches, browserOf>>

\* scrapeAllProviders, up to its first await
Call ==
    /\ entry = "all"
    /\ pc = "init"
    /\ startTime' = now
    /\ maxConcurrent' = EffectiveMaxConcurrent(sched, options)
    /\ results' = << >>
    /\ i' = 0
    /\ settled' = NoResults
    /\ LoopHead(0, IF sched = "queue" THEN providerEntries ELSE << >>, << >>)
    /\ UNCHANGED <<sched, entry, providerName, options, fate, foreignCalls, now, written, cliPc>>

\* the files on disk after the runScraper call of p has settled:
\* writeOutputToFile has written the channels when the call has an output
\* file and resolves
WrittenByRun(p) ==
    IF fate[p] = "ok" /\ OutputFileSet(sched, options)
    THEN written \cup {<<p, "runScraper">>}
    ELSE written

\* Settle putting a failed task back among the pending ones
SettleRequeues(p) ==
    /\ pc = "await"
    /\ taskState[p] = "Running"
    /\ p \notin DOMAIN settled
    /\ written' = WrittenByRun(p)
    /\ \E d \in 0..MaxTick :
        /\ now' = now + d
        /\ LET r == TaskBody(p, fate[p], startAt[p], now + d)
           IN  /\ settled' = [q \in DOMAIN settled \cup {p} |->
                                IF q = p THEN r ELSE settled[q]]
               /\ taskState' = [taskState EXCEPT ![p] =
                                IF r.status = "fulfilled" /\ r.value.success
                                THEN "Succeeded" ELSE "Pending"]
    /\ UNCHANGED <<sched, entry, providerName, options, fate, foreignCalls, pc, maxConcurrent, i,
                   queue, inProgress, results, calls, waveOf, waves, startTime,
                   startAt, returned, launches, browserOf, cliPc>>

\* Settle pushing the result of the task at once, while its wave is running
SettlePushes(p) ==
    /\ pc = "await"
    /\ taskState[p] = "Running"
    /\ p \notin DOMAIN settled
    /\ written' = WrittenByRun(p)
    /\ \E d \in 0..MaxTick :
        /\ now' = now + d
        /\ LET r == TaskBody(p, fate[p], startAt[p], now + d)
           IN  /\ settled' = [q \in DOMAIN settled \cup {p} |->
                                IF q = p THEN r ELSE settled[q]]
               /\ taskState' = [taskState EXCEPT ![p] =
                                IF r.status = "fulfilled" /\ r.value.success
                                THEN "Succeeded" ELSE "Failed"]
               /\ results' = IF r.status = "fulfilled" THEN Append(results, r.value)
                             ELSE results
    /\ UNCHANGED <<sched, entry, providerName, options, fate, foreignCalls, pc, maxConcurrent, i,
                   queue, inProgress, calls, waveOf, waves, startTime,
                   startAt, returned, launches, browserOf, cliPc>>

\* the runScraper call of a running task settles and its task body returns
Settle(p) ==
    /\ pc = "await"
    /\ taskState[p] = "Running"
    /\ p \notin DOMAIN settled
    /\ written' = WrittenByRun(p)
    /\ \E d \in 0..MaxTick :
        /\ now' = now + d
        /\ LET r == TaskBody(p, fate[p], startAt[p], now + d)
           IN  /\ settled' = [q \in DOMAIN settled \cup {p} |->
                                IF q = p THEN r ELSE settled[q]]
               /\ taskState' = [taskState EXCEPT ![p] =
                                IF r.status = "fulfilled" /\ r.value.success
                                THEN "Succeeded" ELSE "Failed"]
    /\ UNCHANGED <<sched, entry, providerName, options, fate, foreignCalls, pc, maxConcurrent, i,
                   queue, inProgress, results, calls, waveOf, waves, startTime,
                   startAt, returned, launches, browserOf, cliPc>>

\* Resume as a sliding window: resumes as soon as one task of the wave has
\* settled, pushes what has settled and starts the next wave
ResumeOnFirstSettled ==
    /\ entry = "all"
    /\ pc = "await"
    /\ \E j \in 1..Len(inProgress) : inProgress[j] \in DOMAIN settled
    /\ waves < MaxIter
    /\ settled' = NoResults
    /\ maxConcurrent' = maxConcurrent
    /\ startTime' = startTime
    /\ results' = results \o BatchResults(SelectSeq(inProgress, LAMBDA p : p \in DOMAIN settled), settled)
    /\ i' = NextIndex(sched, i, maxConcurrent)
    /\ LoopHead(i', queue, results')
    /\ UNCHANGED <<sched, entry, providerName, options, fate, foreignCalls, now, written, cliPc>>

\* `await Promise.all(...)` resumes: a rejection rejects the call; otherwise
\* push the wave's results, advance, and go back to the loop head
Resume ==
    /\ entry = "all"
    /\ pc = "await"
    /\ WaveSettled(inProgress, settled)
    /\ waves < MaxIter
    /\ settled' = NoResults
    /\ maxConcurrent' = maxConcurrent
    /\ startTime' = startTime
    /\ IF RejectedIn(inProgress, settled) # {}
       THEN /\ pc' = "done"
            /\ returned' = [kind |-> "rejected",
                            error |-> settled[CHOOSE p \in RejectedIn(inProgress, settled) : TRUE].reason]
            /\ UNCHANGED <<results, i, queue, inProgress, taskState, calls, waveOf,
                           startAt, waves, launches, browserOf>>
       ELSE /\ results' = results \o BatchResults(inProgress, settled)
            /\ i' = NextIndex(sched, i, maxConcurrent)
            /\ LoopHead(i', queue, results')
    /\ UNCHANGED <<sched, entry, providerName, options, fate, foreignCalls, now, written, cliPc>>

(* ---------------------------------------------------------------------- *)
(* scrapeProvider                                                          *)
(* ---------------------------------------------------------------------- *)
\* providers[providerName], or SCRAPERS.find by lower-cased name: the set of
\* registered providers the name resolves to (empty when not found)
FindProvider(kind, name) ==
    IF kind = "slice"
    THEN {p \in Providers : p = name}
    ELSE {p \in Providers : toLowerCase(p) = toLowerCase(name)}

\* whether the lookup yields a truthy value, so that `if (!config)` does not
\* throw: providers[providerName] also yields the properties the object
\* inherits; SCRAPERS.find yields only registered scrapers
ConfigFound(kind, name) ==
    IF kind = "slice"
    THEN name \in Providers \cup ObjectPrototypeKeys
    ELSE FindProvider(kind, name) # {}

NotFoundError(name) == "Provider \"" \o name \o "\" not found"

\* scrapeProvider, up to its await of runScraper
CallOne ==
    /\ entry = "one"
    /\ pc = "init"
    /\ startTime' = now
    /\ IF ~ConfigFound(sched, providerName)
       THEN /\ pc' = "done"
            /\ returned' = [kind |-> "rejected", error |-> NotFoundError(providerName)]
            /\ UNCHANGED <<inProgress, taskState, calls, foreignCalls, waveOf, startAt, waves,
                           launches, browserOf>>
       ELSE IF FindProvider(sched, providerName) = {}
       THEN /\ pc' = "awaitForeign"
            /\ foreignCalls' = foreignCalls + 1
            /\ launches' = launches + 1
            /\ UNCHANGED <<returned, inProgress, taskState, calls, waveOf, startAt, waves,
                           browserOf>>
       ELSE LET p == CHOOSE q \in FindProvider(sched, providerName) : TRUE
            IN  /\ inProgress' = <<p>>
                /\ StartTasks(<<p>>)
                /\ pc' = "await"
                /\ UNCHANGED <<returned, foreignCalls>>
    /\ UNCHANGED <<sched, entry, providerName, options, fate, maxConcurrent, i, queue,
                   settled, results, now, written, cliPc>>

\* runScraper, called with an inherited property as its config, rejects (the
\* config has no url to navigate to): the catch block of scrapeProvider
\* returns a failure result under the requested name
ResumeForeign ==
    /\ entry = "one"
    /\ pc = "awaitForeign"
    /\ \E d \in 0..MaxTick :
        /\ now' = now + d
        /\ returned' = [kind |-> "result",
                        result |-> [name |-> providerName, success |-> FALSE,
                                    duration |-> now + d - startTime,
                                    error |-> errorOf(providerName)]]
    /\ pc' = "done"
    /\ UNCHANGED <<sched, entry, providerName, options, fate, maxConcurrent, i, queue,
                   inProgress, settled, results, taskState, calls, foreignCalls, waveOf,
                   waves, startTime, startAt, launches, browserOf, written, cliPc>>

\* the awaited runScraper call has settled: scrapeProvider returns the result
ResumeOne ==
    /\ entry = "one"
    /\ pc = "await"
    /\ inProgress[1] \in DOMAIN settled
    /\ pc' = "done"
    /\ returned' = LET s == settled[inProgress[1]]
                   IN  IF s.status = "fulfilled"
                       THEN [kind |-> "result", result |-> s.value]
                       ELSE [kind |-> "rejected", error |-> s.reason]
    /\ UNCHANGED <<sched, entry, providerName, options, fate, maxConcurrent, i, queue,
                   inProgress, settled, results, taskState, calls, foreignCalls, waveOf,
                   waves, now, startTime, startAt, launches, browserOf, written, cliPc>>

(* ---------------------------------------------------------------------- *)
(* The command line entry                                                  *)
(* ---------------------------------------------------------------------- *)
\* the results writeResultsToFiles writes: result.success && result.channels
Writable(res) == SelectSeqOf(res, TRUE)

\* the exit code of the run-all branch of the CLI once scrapeAllProviders
\* has settled with ret; wrote tells whether writeResultsToFiles returned.
\* src/index.ts: .then writes the files or prints, .catch exits with 1;
\* earlier index.ts: runCustom exits with 1 when writeFiles is set and a
\* scraper failed, runScraperCLI exits with 1 on an error
CliExit(kind, opt, ret, wrote) ==
    IF ret.kind = "rejected" THEN "exit1"
    ELSE IF kind = "slice"
         THEN IF opt.writeFiles /\ ~wrote THEN "exit1" ELSE "exit0"
         ELSE IF opt.writeFiles /\ Len(ret.failedScrapers) > 0 THEN "exit1" ELSE "exit0"

\* the handlers the CLI attached to scrapeAllProviders(options) run, and
\* the process ends. writeResultsToFiles writes the files of the successful
\* results in order and may throw at mkdirSync or at any writeFileSync
CliSettles ==
    /\ entry = "all"
    /\ pc = "done"
    /\ cliPc = "waiting"
    /\ sched = "queue" => ~options.hasMaxConcurrent
    /\ IF sched = "slice" /\ returned.kind = "summary"
       THEN LET good == Writable(returned.results)
            IN  \E n \in 0..Len(good), wrote \in BOOLEAN :
                    /\ wrote => n = Len(good)
                    /\ ~wrote => (n < Len(good) \/ n = 0)
                    /\ written' = written \cup {<<good[j].name, "cli">> : j \in 1..n}
                    /\ cliPc' = CliExit(sched, options, returned, wrote)
       ELSE /\ written' = written
            /\ cliPc' = CliExit(sched, options, returned, TRUE)
    /\ UNCHANGED <<sched, entry, providerName, options, fate, pc, maxConcurrent, i, queue,
                   inProgress, settled, results, taskState, calls, foreignCalls, waveOf,
                   waves, now, startTime, startAt, returned, launches, browserOf>>

(* ---------------------------------------------------------------------- *)
(* State of a runScraper call                                              *)
(* ---------------------------------------------------------------------- *)
VARIABLES
    runForm,      \* "outside": setupPage before retry (src/utils/scraper.ts);
                  \* "inside": setupPage in the retried scrapePage (earlier scraper.ts)
    retries,      \* the maxAttempts of retry (CONFIG.RETRY.ATTEMPTS)
    outputFile,   \* whether config.outputFile is set
    failsFirst,   \* the retried function fails on its first failsFirst calls, then succeeds
    run           \* the locals of runScraper and retry, and the browser's state

runVars == <<runForm, retries, outputFile, failsFirst, run>>

(* ---------------------------------------------------------------------- *)
(* State of a processData call                                             *)
(* ---------------------------------------------------------------------- *)
VARIABLES
    normForm,       \* "current" (src/utils/scraper.ts) or "earlier" (earlier scraper.ts)
    data,           \* the raw batch the extractor returned
    overrides,      \* config.overrides
    excludeChannels,\* config.excludeChannels, by name
    npc,            \* "raw", "processed", "reprocessed"
    processed,      \* processData(data, ...)
    reprocessed     \* processData(processed, ...)

normVars == <<normForm, data, overrides, excludeChannels, npc, processed, reprocessed>>

vars == <<schedVars, runVars, normVars>>

RunForms == {"outside", "inside"}

NoSettlement == [status |-> "none"]

\* an Error object: its kind and the call that threw it
Err(kind, at) == [kind |-> kind, at |-> at]

\* the raw batch the n-th call of the extractor returns, and processData of it
RawData(n) == [kind |-> "raw", call |-> n]

Channels(n) == [kind |-> "channels", call |-> n]

\* the state at the call of runScraper
RunIdle ==
    [rpc          |-> "start",      \* the await runScraper is at
     launchCalls  |-> 0,            \* calls of chromium.launch()
     launched     |-> FALSE,        \* chromium.launch has produced a browser
     browser      |-> FALSE,        \* the local `browser` is assigned
     closeCalls   |-> 0,            \* calls of browser.close()
     pagesOpened  |-> 0,            \* pages created by context.newPage()
     pagesOpen    |-> 0,            \* pages created and not closed
     mostOpen     |-> 0,            \* largest number of pages open at once
     i            |-> 0,            \* retry's loop index
     fnCalls      |-> 0,            \* calls of retry's fn
     fnFails      |-> 0,            \* calls of retry's fn that rejected
     fnErrors     |-> << >>,        \* the errors fn rejected with, in order
     gotoCalls    |-> 0,            \* calls of page.goto
     waits        |-> << >>,        \* the delays retry has slept, in order
     pending      |-> NoSettlement, \* the completion a finally block will deliver
     retryOutcome |-> NoSettlement, \* how retry settled
     files        |-> 0,            \* files written by writeOutputToFile
     outcome      |-> NoSettlement] \* how runScraper settled

RunInit ==
    /\ runForm \in RunForms
    /\ retries \in (0 - MaxNegAttempts)..MaxAttempts
    /\ outputFile \in BOOLEAN
    /\ failsFirst \in 0..MaxFails
    /\ run = RunIdle

\* the runScraper state of a specification that does not follow runScraper
RunUnused ==
    /\ runForm = "outside"
    /\ retries = 1
    /\ outputFile = FALSE
    /\ failsFirst = 0
    /\ run = RunIdle

\* the scheduler state of a specification that does not follow the scheduler
SchedUnused ==
    /\ sched = "slice"
    /\ entry = "all"
    /\ providerName = ""
    /\ options = [writeFiles |-> FALSE, hasMaxConcurrent |-> FALSE, maxConcurrent |-> 0]
    /\ fate = [p \in Providers |-> "ok"]
    /\ SchedIdle

(* ---------------------------------------------------------------------- *)
(* retry, setupPage and the finally block of runScraper                    *)
(* ---------------------------------------------------------------------- *)
\* RetryLoopEnters with `<=` for `<`
RetryLoopEntersOnceMore(idx, n) == idx <= n

\* retry's loop condition: i < retries
RetryLoopEnters(idx, n) == idx < n

\* RetryWaits giving up one attempt early
RetryWaitsEarly(idx, n) == idx < n - 2

\* retry's catch: wait and go on when attempts remain (i < retries - 1), else rethrow
RetryWaits(idx, n) == idx < n - 1

\* BackoffDelay doubling once too often
BackoffDelayDoubled(delay, idx) == delay * (2 ^ (idx + 1))

\* the backoff: delay * Math.pow(2, i)
BackoffDelay(delay, idx) == delay * (2 ^ idx)

\* setupPage up to its await of page.goto: a page is created and navigated
OpenPage(r) ==
    [r EXCEPT !.pagesOpened = @ + 1, !.pagesOpen = @ + 1,
              !.mostOpen = Max(@, r.pagesOpen + 1),
              !.gotoCalls = @ + 1, !.rpc = "goto"]

\* the finally block (and, in the inside form, `if (browser)`): close the
\* browser, which closes its pages, then complete with s
Finally(r, s) ==
    IF r.browser
    THEN [r EXCEPT !.rpc = "browserClose", !.closeCalls = @ + 1, !.pagesOpen = 0,
                   !.pending = s]
    ELSE [r EXCEPT !.rpc = "done", !.outcome = s]

\* retry calls fn: scrapeFunction(page), or scrapePage which opens its page
StartFn(r) ==
    IF runForm = "inside"
    THEN OpenPage([r EXCEPT !.fnCalls = @ + 1])
    ELSE [r EXCEPT !.fnCalls = @ + 1, !.rpc = "scrape"]

\* RetryRejects wrapping e in a new error
RetryRejectsWrapped(r, e) ==
    Finally([r EXCEPT !.retryOutcome = Rejected(Err("RetryFailed", e.at))],
            Rejected(Err("RetryFailed", e.at)))

\* retry rejects with e, which leaves runScraper's try block
RetryRejects(r, e) == Finally([r EXCEPT !.retryOutcome = Rejected(e)], Rejected(e))

\* the head of retry's loop; after the loop, `throw new Error('Retry failed')`
RetryLoop(r) ==
    IF RetryLoopEnters(r.i, retries) THEN StartFn(r)
    ELSE RetryRejects(r, Err("RetryFailed", 0))

\* fn rejected with e: retry's catch block
FnFailed(r, e) ==
    LET r1 == [r EXCEPT !.fnFails = @ + 1, !.fnErrors = Append(@, e)]
    IN  IF RetryWaits(r.i, retries)
        THEN [r1 EXCEPT !.rpc = "backoff",
                        !.waits = Append(@, BackoffDelay(RETRY_DELAY, r.i))]
        ELSE RetryRejects(r1, e)

\* fn resolved with v: retry returns it; runScraper holds the channels n,
\* writes them when outputFile is set (a write may throw) and returns them
FnSucceeded(r, v, n, writeOk) ==
    LET r1 == [r EXCEPT !.retryOutcome = Fulfilled(v)]
    IN  IF outputFile
        THEN IF writeOk
             THEN Finally([r1 EXCEPT !.files = @ + 1], Fulfilled(Channels(n)))
             ELSE Finally(r1, Rejected(Err("OutputWriteError", n)))
        ELSE Finally(r1, Fulfilled(Channels(n)))

\* whether the call of fn in flight is one of the failing first calls
CallFails(r) == r.fnCalls <= failsFirst

(* ---------------------------------------------------------------------- *)
(* runScraper, await by await                                              *)
(* ---------------------------------------------------------------------- *)
\* runScraper is called: setupBrowser awaits chromium.launch
RunStart ==
    /\ run.rpc = "start"
    /\ run' = [run EXCEPT !.rpc = "launch", !.launchCalls = @ + 1]
    /\ UNCHANGED <<runForm, retries, outputFile, failsFirst>>

\* chromium.launch settles; setupBrowser goes on to browser.newContext
LaunchSettles ==
    /\ run.rpc = "launch"
    /\ \E ok \in BOOLEAN :
        run' = IF ok
               THEN [run EXCEPT !.launched = TRUE, !.rpc = "newContext"]
               ELSE Finally(run, Rejected(Err("LaunchError", 0)))
    /\ UNCHANGED <<runForm, retries, outputFile, failsFirst>>

\* browser.newContext settles: setupBrowser returns and `browser` is assigned,
\* then setupPage (outside form) or retry(scrapePage) (inside form) starts;
\* when it throws, `browser` was never assigned
NewContextSettles ==
    /\ run.rpc = "newContext"
    /\ \E ok \in BOOLEAN :
        run' = IF ok
               THEN LET r1 == [run EXCEPT !.browser = TRUE]
                    IN  IF runForm = "outside" THEN OpenPage(r1) ELSE RetryLoop(r1)
               ELSE IF runForm = "outside"
                    THEN [run EXCEPT !.rpc = "done",
                                     !.outcome = Rejected(Err("ContextError", 0))]
                    ELSE Finally(run, Rejected(Err("ContextError", 0)))
    /\ UNCHANGED <<runForm, retries, outputFile, failsFirst>>

\* page.goto settles: setupPage returns the page or throws
GotoSettles ==
    /\ run.rpc = "goto"
    /\ \E ok \in BOOLEAN :
        /\ (runForm = "inside" /\ ~CallFails(run)) => ok
        /\ run' = IF runForm = "outside"
                  THEN IF ok THEN RetryLoop(run)
                       ELSE Finally(run, Rejected(Err("NavigationError", run.gotoCalls)))
                  ELSE IF ok THEN [run EXCEPT !.rpc = "scrape"]
                       ELSE FnFailed(run, Err("NavigationError", run.gotoCalls))
    /\ UNCHANGED <<runForm, retries, outputFile, failsFirst>>

\* config.scrapeFunction(page) settles
ScrapeSettles ==
    /\ run.rpc = "scrape"
    /\ \E ok, writeOk \in BOOLEAN :
        /\ ~CallFails(run) => ok
        /\ (runForm = "outside" /\ CallFails(run)) => ~ok
        /\ run' = IF runForm = "outside"
                  THEN IF ok
                       THEN FnSucceeded(run, RawData(run.fnCalls), run.fnCalls, writeOk)
                       ELSE FnFailed(run, Err("ExtractionError", run.fnCalls))
                  ELSE [run EXCEPT !.rpc = "pageClose",
                                   !.pagesOpen = @ - 1,
                                   !.pending = IF ok THEN Fulfilled(Channels(run.fnCalls))
                                               ELSE Rejected(Err("ExtractionError", run.fnCalls))]
    /\ UNCHANGED <<runForm, retries, outputFile, failsFirst>>

\* page.close() in scrapePage's finally settles: scrapePage settles
PageCloseSettles ==
    /\ run.rpc = "pageClose"
    /\ \E ok, writeOk \in BOOLEAN :
        /\ ~CallFails(run) => ok
        /\ (CallFails(run) /\ run.pending.status = "fulfilled") => ~ok
        /\ LET r1 == [run EXCEPT !.pending = NoSettlement]
           IN  run' = IF ~ok THEN FnFailed(r1, Err("PageCloseError", run.fnCalls))
                      ELSE IF run.pending.status = "fulfilled"
                           THEN FnSucceeded(r1, run.pending.value, run.fnCalls, writeOk)
                           ELSE FnFailed(r1, run.pending.reason)
    /\ UNCHANGED <<runForm, retries, outputFile, failsFirst>>

\* the backoff timer fires: retry's loop goes on with i + 1
BackoffElapses ==
    /\ run.rpc = "backoff"
    /\ run' = RetryLoop([run EXCEPT !.i = @ + 1])
    /\ UNCHANGED <<runForm, retries, outputFile, failsFirst>>

\* browser.close() in the finally block settles: runScraper settles
BrowserCloseSettles ==
    /\ run.rpc = "browserClose"
    /\ \E ok \in BOOLEAN :
        run' = [run EXCEPT !.rpc = "done",
                           !.pending = NoSettlement,
                           !.outcome = IF ok THEN run.pending
                                       ELSE Rejected(Err("BrowserCloseError", 0))]
    /\ UNCHANGED <<runForm, retries, outputFile, failsFirst>>

(* ---------------------------------------------------------------------- *)
(* Strings, as sequences of one-character strings                          *)
(* ---------------------------------------------------------------------- *)
lowerCase == <<"a", "b", "c", "d", "e", "f", "g", "h", "i", "j", "k", "l", "m",
               "n", "o", "p", "q", "r", "s", "t", "u", "v", "w", "x", "y", "z">>

upperCase == <<"A", "B", "C", "D", "E", "F", "G", "H", "I", "J", "K", "L", "M",
               "N", "O", "P", "Q", "R", "S", "T", "U", "V", "W", "X", "Y", "Z">>

Digits == {"0", "1", "2", "3", "4", "5", "6", "7", "8", "9"}

\* the regular expression classes \w and \s (space and tab stand for \s)
IsWord(c) == c \in Range(lowerCase) \cup Range(upperCase) \cup Digits \cup {"_"}

IsSpace(c) == c \in {" ", "\t"}

\* length of the whitespace run s starts with: what a greedy \s* takes
RECURSIVE SpaceRun(_)
SpaceRun(s) ==
    IF s # << >> /\ IsSpace(Head(s)) THEN 1 + SpaceRun(Tail(s)) ELSE 0

\* String.prototype.indexOf for one character, 1-based; 0 when absent
IndexOf(s, c) ==
    IF \E j \in 1..Len(s) : s[j] = c
    THEN CHOOSE j \in 1..Len(s) : s[j] = c /\ \A k \in 1..(j - 1) : s[k] # c
    ELSE 0

\* String.prototype.includes
Includes(s, sub) ==
    \E j \in 1..(Len(s) - Len(sub) + 1) : SubSeq(s, j, j + Len(sub) - 1) = sub

\* toUpperCase leaving the name as it is
toUpperCaseUnchanged(s) == s

\* String.prototype.toUpperCase
toUpperCase(s) ==
    [j \in 1..Len(s) |->
        IF \E k \in 1..26 : lowerCase[k] = s[j]
        THEN upperCase[CHOOSE k \in 1..26 : lowerCase[k] = s[j]]
        ELSE s[j]]

\* String.prototype.trim
RECURSIVE TrimEnd(_)
TrimEnd(s) ==
    IF s # << >> /\ IsSpace(s[Len(s)]) THEN TrimEnd(SubSeq(s, 1, Len(s) - 1)) ELSE s

Trim(s) == TrimEnd(SubSeq(s, SpaceRun(s) + 1, Len(s)))

(* ---------------------------------------------------------------------- *)
(* normalizeChannelName                                                    *)
(* ---------------------------------------------------------------------- *)
NormForms == {"current", "earlier"}

\* the length of the match of the first regular expression at the head of
\* s, 0 when it does not match there. The alternatives are tried in order:
\* \([^)]*\), ', [^\w\s&+'], \s+, \s*&\s*, and in the current form \s+\+1
\* (which can never be the one that matches: \s+ matches first)
MatchLength(form, s) ==
    LET c == Head(s)
    IN  IF c = "(" /\ IndexOf(s, ")") > 0 THEN IndexOf(s, ")")
        ELSE IF c = "'" THEN 1
        ELSE IF ~IsWord(c) /\ ~IsSpace(c) /\ c \notin {"&", "+", "'"} THEN 1
        ELSE IF IsSpace(c) THEN SpaceRun(s)
        ELSE IF c = "&" THEN 1 + SpaceRun(Tail(s))
        ELSE 0

\* the replacement callback of the first replace
Replacement(form, match) ==
    IF form = "current"
    THEN IF match = <<"&">> \/ Includes(match, <<"&">>) THEN <<"&">>
         ELSE IF match = <<"'">> THEN <<"'">>
         ELSE IF Head(match) = "(" THEN << >>
         ELSE IF Includes(match, <<"+", "1">>) THEN <<"+", "1">>
         ELSE IF match = <<" ">> THEN <<" ">>
         ELSE << >>
    ELSE IF match = <<"&">> THEN <<" ", "&", " ">>
         ELSE IF match = <<"'">> THEN <<"'">>
         ELSE IF Head(match) = "(" THEN << >>
         ELSE IF match = <<" ">> THEN <<" ">>
         ELSE << >>

\* .replace(/.../g, callback): every match, left to right, is replaced
RECURSIVE ReplaceMatches(_, _)
ReplaceMatches(form, s) ==
    IF s = << >> THEN << >>
    ELSE LET n == MatchLength(form, s)
         IN  IF n = 0 THEN <<Head(s)>> \o ReplaceMatches(form, Tail(s))
             ELSE Replacement(form, SubSeq(s, 1, n))
                     \o ReplaceMatches(form, SubSeq(s, n + 1, Len(s)))

\* .replace(/\s+\+1/g, '+1')
RECURSIVE JoinPlusOne(_)
JoinPlusOne(s) ==
    IF s = << >> THEN << >>
    ELSE LET n == SpaceRun(s)
         IN  IF n = 0 THEN <<Head(s)>> \o JoinPlusOne(Tail(s))
             ELSE IF Len(s) >= n + 2 /\ s[n + 1] = "+" /\ s[n + 2] = "1"
                  THEN <<"+", "1">> \o JoinPlusOne(SubSeq(s, n + 3, Len(s)))
                  ELSE SubSeq(s, 1, n) \o JoinPlusOne(SubSeq(s, n + 1, Len(s)))

\* .replace(/\s+/g, ' ')
RECURSIVE CollapseSpaces(_)
CollapseSpaces(s) ==
    IF s = << >> THEN << >>
    ELSE LET n == SpaceRun(s)
         IN  IF n = 0 THEN <<Head(s)>> \o CollapseSpaces(Tail(s))
             ELSE <<" ">> \o CollapseSpaces(SubSeq(s, n + 1, Len(s)))

normalizeChannelName(form, name) ==
    LET replaced == ReplaceMatches(form, toUpperCase(name))
    IN  IF form = "current"
        THEN Trim(CollapseSpaces(JoinPlusOne(replaced)))
        ELSE Trim(replaced)

(* ---------------------------------------------------------------------- *)
(* processData                                                             *)
(* ---------------------------------------------------------------------- *)
\* a Record<string, string> from its key/value pairs
Table(pairs) ==
    [k \in {pr[1] : pr \in pairs} |-> (CHOOSE pr \in pairs : pr[1] = k)[2]]

\* the default `overrides = {}`
noOverrides == Table({})

\* the overrides of scrapers/dish.ts
dishOverrides ==
    Table({<< <<"N", "I", "C", "K">>,
              <<"N", "I", "C", "K", "E", "L", "O", "D", "E", "O", "N">> >>})

\* the overrides of scrapers/sky.ts whose key a normalized name can equal
\* (the other keys hold '.', '/' or lower-case letters)
skyOverrides ==
    Table({<< <<"5">>, <<"C", "h", "a", "n", "n", "e", "l", "5">> >>,
           << <<"5", "+", "1">>, <<"C", "h", "a", "n", "n", "e", "l", "5", "+", "1">> >>})

OverrideTables == {noOverrides, dishOverrides, skyOverrides}

\* the exclusion predicates: the default () => false, and the one of
\* scrapers/virgin.ts, !channel.name || channel.number.includes('-')
ExcludeKinds == {"none", "virgin"}

Excludes(kind, channel) ==
    IF kind = "virgin"
    THEN channel.name = << >> \/ Includes(channel.number, <<"-">>)
    ELSE FALSE

\* an extractor's `return {}`
NoFields == [f \in {} |-> << >>]

\* whether item?.field is truthy: present and not the empty string
Truthy(item, field) == field \in DOMAIN item /\ item[field] # << >>

\* FinalName without the override table
FinalNameNoOverride(table, normalizedName) == normalizedName

\* overrides[normalizedName] || normalizedName
FinalName(table, normalizedName) ==
    IF normalizedName \in DOMAIN table /\ table[normalizedName] # << >>
    THEN table[normalizedName]
    ELSE normalizedName

\* MapItem normalizing the number like the name
MapItemNormalizedNumber(form, item, table, exclude) ==
    IF ~Truthy(item, "name") \/ ~Truthy(item, "number") THEN << >>
    ELSE LET normalizedName == normalizeChannelName(form, item.name)
             channel == Chan(normalizeChannelName(form, item.number),
                             FinalName(table, normalizedName))
         IN  IF form = "earlier" /\ Excludes(exclude, channel) THEN << >>
             ELSE <<channel>>

\* the callback of data.map: no channel (null) or one channel. The current
\* processData has no excludeChannels parameter and returns every channel
MapItem(form, item, table, exclude) ==
    IF ~Truthy(item, "name") \/ ~Truthy(item, "number") THEN << >>
    ELSE LET normalizedName == normalizeChannelName(form, item.name)
             channel == Chan(item.number, FinalName(table, normalizedName))
         IN  IF form = "earlier" /\ Excludes(exclude, channel) THEN << >>
             ELSE <<channel>>

\* processData putting each channel before the ones already mapped
RECURSIVE processDataReversed(_, _, _, _)
processDataReversed(form, items, table, exclude) ==
    IF items = << >> THEN << >>
    ELSE processDataReversed(form, Tail(items), table, exclude)
            \o MapItem(form, Head(items), table, exclude)

\* data.map(...).filter(channel => channel !== null)
RECURSIVE processData(_, _, _, _)
processData(form, items, table, exclude) ==
    IF items = << >> THEN << >>
    ELSE MapItem(form, Head(items), table, exclude)
            \o processData(form, Tail(items), table, exclude)

\* the characters raw names are drawn from
NameChars == {"a", "5", "1", "+", " ", "\t", "(", ")", "&", "'", "."}

RawNames == UNION {[1..n -> NameChars] : n \in 0..MaxNameLen}

\* one-record batches over every raw name
SingleBatches == {<<[number |-> <<"7">>, name |-> nm]>> : nm \in RawNames}

\* records of listings: a parenthetical before the name, an empty number,
\* a lower-case name with an override, a number range, a plain record, a
\* number with a leading space, an empty object
ListedItems ==
    {[number |-> <<"5">>, name |-> <<"(", "H", "D", ")", " ", "E", "S", "P", "N">>],
     [number |-> << >>, name |-> <<"B", "a", "d">>],
     [number |-> <<"6">>, name |-> <<"n", "i", "c", "k">>],
     [number |-> <<"1", "0", "0", "-", "1", "0", "1">>, name |-> <<"X">>],
     [number |-> <<"5", "0">>, name |-> <<"Y">>],
     [number |-> <<" ", "7">>, name |-> <<"Z">>],
     NoFields}

ListedBatches == UNION {[1..n -> ListedItems] : n \in 0..MaxBatch}

NormIdle ==
    /\ npc = "raw"
    /\ processed = << >>
    /\ reprocessed = << >>

NormInit ==
    /\ normForm \in NormForms
    /\ data \in SingleBatches \cup ListedBatches
    /\ overrides \in OverrideTables
    /\ excludeChannels \in ExcludeKinds
    /\ NormIdle

\* the processData state of a specification that does not follow processData
NormUnused ==
    /\ normForm = "current"
    /\ data = << >>
    /\ overrides = noOverrides
    /\ excludeChannels = "none"
    /\ NormIdle

\* runScraper's processData(data, overrides[, excludeChannels])
Process ==
    /\ npc = "raw"
    /\ processed' = processData(normForm, data, overrides, excludeChannels)
    /\ npc' = "processed"
    /\ UNCHANGED <<normForm, data, overrides, excludeChannels, reprocessed>>

\* processData applied to its own output
Reprocess ==
    /\ npc = "processed"
    /\ reprocessed' = processData(normForm, processed, overrides, excludeChannels)
    /\ npc' = "reprocessed"
    /\ UNCHANGED <<normForm, data, overrides, excludeChannels, processed>>

(* ---------------------------------------------------------------------- *)
(* Specifications                                                          *)
(* ---------------------------------------------------------------------- *)
Init == SchedInit /\ RunUnused /\ NormUnused

Next ==
    \/ Call /\ UNCHANGED <<runVars, normVars>>
    \/ (\E p \in Providers : Settle(p)) /\ UNCHANGED <<runVars, normVars>>
    \/ Resume /\ UNCHANGED <<runVars, normVars>>
    \/ CallOne /\ UNCHANGED <<runVars, normVars>>
    \/ ResumeOne /\ UNCHANGED <<runVars, normVars>>
    \/ ResumeForeign /\ UNCHANGED <<runVars, normVars>>
    \/ CliSettles /\ UNCHANGED <<runVars, normVars>>

\* scrapeAllProviders and scrapeProvider over settling runScraper calls
Spec == Init /\ [][Next]_vars

\* the event loop runs every callback that is ready, and every task body finishes
FairSpec == Spec /\ WF_vars(Next)

RunSpecInit == RunInit /\ SchedUnused /\ NormUnused

RunNext ==
    \/ RunStart /\ UNCHANGED <<schedVars, normVars>>
    \/ LaunchSettles /\ UNCHANGED <<schedVars, normVars>>
    \/ NewContextSettles /\ UNCHANGED <<schedVars, normVars>>
    \/ GotoSettles /\ UNCHANGED <<schedVars, normVars>>
    \/ ScrapeSettles /\ UNCHANGED <<schedVars, normVars>>
    \/ PageCloseSettles /\ UNCHANGED <<schedVars, normVars>>
    \/ BackoffElapses /\ UNCHANGED <<schedVars, normVars>>
    \/ BrowserCloseSettles /\ UNCHANGED <<schedVars, normVars>>

\* one runScraper call, await by await
RunSpec == RunSpecInit /\ [][RunNext]_vars

NormSpecInit == NormInit /\ SchedUnused /\ RunUnused

NormNext ==
    \/ Process /\ UNCHANGED <<schedVars, runVars>>
    \/ Reprocess /\ UNCHANGED <<schedVars, runVars>>

\* processData over a raw batch, then over its own output
NormSpec == NormSpecInit /\ [][NormNext]_vars

(* ---------------------------------------------------------------------- *)
(* Properties of the scheduler                                             *)
(* ---------------------------------------------------------------------- *)
\* the concurrency the call runs with
EffK == EffectiveMaxConcurrent(sched, options)

AllWithK == entry = "all" /\ EffK >= 1

RunningTasks == {p \in Providers : taskState[p] = "Running"}

PendingTasks == {p \in Providers : taskState[p] = "Pending"}

Terminal(p) == taskState[p] \in {"Succeeded", "Failed"}

ResultsOf(p) == {j \in 1..Len(results) : results[j].name = p}

CeilDiv(n, k) == (n + k - 1) \div k

\* C1: with maxConcurrent = k >= 1, at no instant of a scrapeAllProviders run
\* are more than k task bodies (runScraper calls) Running.
C1_ConcurrencyBound == AllWithK => Cardinality(RunningTasks) <= EffK

\* a wave of exactly k = 3 running tasks, one task still pending
C1_Witness ==
    /\ entry = "all" /\ options.hasMaxConcurrent /\ options.maxConcurrent = 3
    /\ Cardinality(RunningTasks) = 3 /\ PendingTasks # {}

\* C2: no task of a later wave is started (has left Pending) until every task
\* of every earlier wave is Succeeded or Failed.
C2_WaveBarrier ==
    entry = "all" =>
        \A p, q \in Providers :
            (waveOf[p] >= 0 /\ waveOf[q] > waveOf[p]) => Terminal(p)

\* the second wave is running after a first wave of two tasks
C2_Witness ==
    /\ entry = "all" /\ EffK = 2
    /\ \E p, q \in Providers :
        waveOf[p] = 0 /\ Terminal(p) /\ waveOf[q] = 1 /\ taskState[q] = "Running"

\* C3: for k >= 1 the accumulated results, and the result list returned, hold
\* the result of the j-th registered provider at position j, whatever the
\* order in which the tasks of a wave completed.
C3_SubmissionOrder ==
    AllWithK =>
        /\ Len(results) <= Len(providerEntries)
        /\ \A j \in 1..Len(results) : results[j].name = providerEntries[j]
        /\ returned.kind = "summary" =>
              [j \in 1..Len(returned.results) |-> returned.results[j].name] = providerEntries
        /\ returned.kind = "providerChannels" =>
              [j \in 1..Len(returned.list) |-> returned.list[j].provider]
                 = SelectSeq(providerEntries, LAMBDA p : fate[p] = "ok")

\* a returned summary in which a task finished before the task submitted
\* just before it in the same wave
C3_Witness ==
    /\ entry = "all" /\ pc = "done" /\ returned.kind = "summary"
    /\ \E j \in 1..(Len(results) - 1) :
        /\ waveOf[results[j].name] = waveOf[results[j + 1].name]
        /\ results[j].duration > results[j + 1].duration

\* C4: for every set of failing provider tasks, every other provider task is
\* started exactly once and ends Succeeded with its own channels, as in the
\* run where nothing fails.
C4_Isolation ==
    AllWithK =>
        \A p \in Providers :
            fate[p] = "ok" =>
                /\ calls[p] <= 1
                /\ pc = "done" =>
                      /\ calls[p] = 1
                      /\ taskState[p] = "Succeeded"
                      /\ Cardinality(ResultsOf(p)) = 1
                      /\ \A j \in ResultsOf(p) :
                            /\ results[j].success
                            /\ results[j].channels = lineup(p)
                            /\ results[j].channelCount = Len(lineup(p))

\* a finished run with k = 2 where DIRECTV failed, in the wave of DISH and
\* in the wave before SKY's
C4_Witness ==
    /\ entry = "all" /\ pc = "done" /\ EffK = 2
    /\ fate["DIRECTV"] = "throw" /\ fate["DISH"] = "ok" /\ fate["SKY"] = "ok"
    /\ ~results[1].success /\ results[2].success /\ results[3].success

\* C5: an error thrown by runScraper for a registered provider never rejects
\* scrapeAllProviders or scrapeProvider: the task promise is fulfilled with a
\* result of success = false carrying that error, and the call resolves.
C5_ErrorsCaught ==
    /\ returned.kind = "rejected" =>
          (entry = "one" /\ FindProvider(sched, providerName) = {})
    /\ \A p \in DOMAIN settled :
          fate[p] = "throw" =>
              /\ settled[p].status = "fulfilled"
              /\ ~settled[p].value.success
              /\ settled[p].value.error = errorOf(p)
    /\ \A j \in 1..Len(results) :
          fate[results[j].name] = "throw" =>
              (~results[j].success /\ results[j].error = errorOf(results[j].name))
    /\ (pc = "done" /\ AllWithK) =>
          \A p \in Providers : fate[p] = "throw" => ResultsOf(p) # {}
    /\ returned.kind = "result" =>
          ((returned.result.name \in Providers /\ fate[returned.result.name] = "throw") =>
              (~returned.result.success /\ returned.result.error = errorOf(returned.result.name)))

\* scrapeProvider resolved with the failure of its provider
C5_Witness ==
    /\ entry = "one" /\ pc = "done" /\ returned.kind = "result"
    /\ returned.result.name \in Providers
    /\ ~returned.result.success /\ calls[returned.result.name] = 1

\* C6: in a completed scrapeAllProviders run with k >= 1, runScraper was
\* invoked exactly once per registered provider and the result list holds
\* exactly one result per provider.
C6_ExactlyOnce ==
    AllWithK =>
        /\ \A p \in Providers : calls[p] <= 1
        /\ pc = "done" =>
              /\ Len(results) = Len(providerEntries)
              /\ \A p \in Providers : calls[p] = 1 /\ Cardinality(ResultsOf(p)) = 1

\* a completed run with k = 3: a wave of three and a wave of one
C6_Witness ==
    /\ entry = "all" /\ pc = "done" /\ EffK = 3
    /\ Len(results) = 4 /\ waveOf["SKY"] = 0 /\ waveOf["Virgin"] = 1

\* C7: for k >= 1, if every task body eventually finishes, scrapeAllProviders
\* eventually returns with nothing pending, after ceil(n / k) waves.
C7_Terminates ==
    AllWithK =>
        <>(/\ pc = "done"
           /\ queue = << >>
           /\ PendingTasks = {}
           /\ waves = CeilDiv(Len(providerEntries), EffK))

\* a run with k = 3 has returned after its two waves
C7_Witness ==
    /\ entry = "all" /\ pc = "done" /\ options.hasMaxConcurrent
    /\ options.maxConcurrent = 3 /\ waves = 2 /\ PendingTasks = {}

\* Scenario A on the registry: maxConcurrent = 2, the first provider
\* succeeds with 2 channels, the second fails, the third succeeds with 3
ScenarioA ==
    /\ entry = "all" /\ EffK = 2
    /\ fate["DIRECTV"] = "ok" /\ fate["DISH"] = "throw" /\ fate["SKY"] = "ok"

NamesOf(res) == [j \in 1..Len(res) |-> res[j].name]

\* C20: with tasks [A succeeds with 2 channels, B fails, C succeeds with 3
\* channels] and maxConcurrent = 2, the waves are [A, B] then [C], the
\* results are [A: success, B: failure, C: success] and the summary has 2 of
\* 3 succeeded, totalChannels = 5 and failed = [B].
C20_ScenarioA ==
    (ScenarioA /\ pc = "done" /\ returned.kind = "summary") =>
        /\ waveOf["DIRECTV"] = 0 /\ waveOf["DISH"] = 0 /\ waveOf["SKY"] = 1
        /\ NamesOf(returned.results) = <<"DIRECTV", "DISH", "SKY">>
        /\ returned.successRate \in
              {[format |-> "percent", tenths |-> 666],
               [format |-> "percent", tenths |-> 667],
               [format |-> "ratio", succeeded |-> 2, total |-> 3]}
        /\ returned.totalChannels = 5
        /\ NamesOf(returned.failedScrapers) = <<"DISH">>

\* C20, amended: the task list is always the four registered providers, so
\* the second wave is [SKY, Virgin]; the results are [DIRECTV: success,
\* DISH: failure, SKY: success, Virgin], totalChannels = 5 (Virgin lists no
\* channel), and with Virgin succeeding 3 of 4 succeeded and failed = [DISH]
\* (2 of 4 and [DISH, Virgin] with Virgin failing).
C20_ScenarioAOnRegistry ==
    ScenarioA =>
        /\ \A p \in Providers :
              waveOf[p] >= 0 => waveOf[p] = (IF p \in {"DIRECTV", "DISH"} THEN 0 ELSE 1)
        /\ pc = "done" =>
              /\ waves = 2
              /\ NamesOf(results) = providerEntries
              /\ [j \in 1..Len(results) |-> results[j].success]
                    = <<TRUE, FALSE, TRUE, fate["Virgin"] = "ok">>
        /\ (pc = "done" /\ returned.kind = "summary") =>
              LET ok == IF fate["Virgin"] = "ok" THEN 3 ELSE 2
              IN  /\ returned.results = results
                  /\ returned.successRate =
                        (IF sched = "slice"
                         THEN [format |-> "percent", tenths |-> ok * 250]
                         ELSE [format |-> "ratio", succeeded |-> ok, total |-> 4])
                  /\ returned.totalChannels = 5
                  /\ NamesOf(returned.failedScrapers) =
                        (IF fate["Virgin"] = "ok" THEN <<"DISH">> ELSE <<"DISH", "Virgin">>)

\* the summary of a finished run of the scenario in which Virgin succeeded
C20_Witness ==
    /\ ScenarioA /\ pc = "done" /\ returned.kind = "summary"
    /\ fate["Virgin"] = "ok" /\ waves = 2 /\ Len(returned.failedScrapers) = 1

\* the number of providers whose runScraper call resolves
SucceededCount == Cardinality({p \in Providers : fate[p] = "ok"})

\* C21: the summary of file mode partitions the results: failedScrapers is
\* exactly the results with success = false, in result order, every other
\* result counts as succeeded, successRate is succeeded over total, and
\* totalChannels sums channelCount over the succeeded results only.
C21_SummaryPartition ==
    returned.kind = "summary" =>
        /\ returned.results = results
        /\ returned.failedScrapers = SelectSeq(results, LAMBDA r : ~r.success)
        /\ \A j \in 1..Len(results) : results[j].success <=> fate[results[j].name] = "ok"
        /\ Len(results) - Len(returned.failedScrapers) = SucceededCount
        /\ returned.successRate =
              (IF sched = "slice"
               THEN [format |-> "percent",
                     tenths |-> (SucceededCount * 1000) \div Len(results)]
               ELSE [format |-> "ratio", succeeded |-> SucceededCount,
                     total |-> Len(results)])
        /\ returned.totalChannels =
              SumSeq([j \in 1..Len(providerEntries) |->
                        IF fate[providerEntries[j]] = "ok"
                        THEN Len(lineup(providerEntries[j])) ELSE 0])

\* a summary with two failed providers, DISH before SKY, and 2 channels
C21_Witness ==
    /\ returned.kind = "summary" /\ Len(returned.failedScrapers) = 2
    /\ returned.failedScrapers[1].name = "DISH"
    /\ returned.failedScrapers[2].name = "SKY"
    /\ returned.totalChannels = 2

\* C22: the summary's totalDuration is the sum of the durations of all task
\* results, not the wall-clock time of the run.
C22_TotalDurationIsSum ==
    returned.kind = "summary" =>
        returned.totalDuration = SumSeq([j \in 1..Len(results) |-> results[j].duration])

\* what holds instead: src/index.ts reports the time from the call to the
\* end of the last wave, the earlier index.ts the sum of the durations
TotalDurationByForm ==
    (returned.kind = "summary" /\ cliPc = "waiting") =>
        returned.totalDuration =
            (IF sched = "slice" THEN now - startTime
             ELSE SumSeq([j \in 1..Len(results) |-> results[j].duration]))

SomeTaskFailed == \E j \in 1..Len(results) : ~results[j].success

\* every file writeResultsToFiles had to write is written
CliFilesComplete ==
    \A j \in 1..Len(results) :
        results[j].success => <<results[j].name, "cli">> \in written

\* C23: when the CLI runs all providers, the process exits with code 1 if
\* it is in file-output mode and at least one provider task failed, and
\* with code 0 otherwise (runs whose result files could not all be written
\* set aside).
C23_ExitCode ==
    (/\ cliPc # "waiting"
     /\ (sched = "slice" /\ options.writeFiles) => CliFilesComplete)
        => (cliPc = "exit1" <=> (options.writeFiles /\ SomeTaskFailed))

\* what holds instead: the earlier CLI exits as claimed; the CLI of
\* src/index.ts exits with 1 only when writeResultsToFiles threw, whatever
\* the tasks did
ExitCodeByForm ==
    cliPc # "waiting" =>
        IF sched = "queue"
        THEN cliPc = "exit1" <=> (options.writeFiles /\ SomeTaskFailed)
        ELSE /\ cliPc = "exit1" =>
                  (options.writeFiles /\ (~CliFilesComplete \/ Writable(results) = << >>))
             /\ (options.writeFiles /\ ~CliFilesComplete) => cliPc = "exit1"

\* C24: when writeFiles is not set, scrapeAllProviders of src/index.ts
\* resolves with one {provider, channels} entry per provider whose task
\* succeeded, in submission order, and none for a failed provider.
C24_ProviderChannels ==
    (sched = "slice" /\ entry = "all" /\ pc = "done" /\ ~options.writeFiles) =>
        /\ returned.kind = "providerChannels"
        /\ returned.list =
              [j \in 1..Len(SelectSeq(providerEntries, LAMBDA p : fate[p] = "ok")) |->
                 LET p == SelectSeq(providerEntries, LAMBDA q : fate[q] = "ok")[j]
                 IN  [provider |-> p, channels |-> lineup(p)]]

\* the list returned when DISH and Virgin failed: DIRECTV's entry, then SKY's
C24_Witness ==
    /\ sched = "slice" /\ entry = "all" /\ pc = "done" /\ ~options.writeFiles
    /\ fate["DISH"] = "throw" /\ fate["Virgin"] = "throw"
    /\ Len(returned.list) = 2 /\ returned.list[2].provider = "SKY"

\* the earlier scrapeAllProviders returns the channels of the succeeded
\* providers as one flat list
FlatChannelsEarlier ==
    (sched = "queue" /\ entry = "all" /\ pc = "done" /\ ~options.writeFiles) =>
        /\ returned.kind = "channels"
        /\ Len(returned.list) =
              SumSeq([j \in 1..Len(providerEntries) |->
                        IF fate[providerEntries[j]] = "ok"
                        THEN Len(lineup(providerEntries[j])) ELSE 0])

\* C25: when writeFiles is false or absent, no call of scrapeAllProviders
\* or scrapeProvider writes any file.
C25_NoFilesWithoutWriteFiles == ~options.writeFiles => written = {}

\* what holds instead: the earlier entry points write only when writeFiles
\* is set; with src/index.ts every runScraper call that resolves has
\* written its provider's file
FilesWrittenByForm ==
    /\ (sched = "queue" /\ ~options.writeFiles) => written = {}
    /\ sched = "slice" =>
          \A p \in Providers :
              (taskState[p] = "Succeeded") => <<p, "runScraper">> \in written

\* C26: a failure while persisting results is not isolated per task: it
\* rejects the call, and is never recorded as the failed result of the
\* provider task whose output was being written.
C26_WriteFailurePropagates ==
    /\ \A p \in DOMAIN settled :
          (p \in Providers /\ fate[p] = "writeThrow") => settled[p].status = "rejected"
    /\ \A j \in 1..Len(results) :
          ~results[j].success => results[j].error # writeErrorOf(results[j].name)
    /\ returned.kind = "result" =>
          (~returned.result.success =>
              returned.result.error # writeErrorOf(returned.result.name))

\* C26 as the code has it: a failure of writeOutputToFile inside runScraper
\* is caught by the task body and becomes the failed result of that provider,
\* and the call does not reject; a failure of the command line's
\* writeResultsToFiles, after aggregation, ends the process with code 1
\* and leaves the results as they were.
C26_WriteFailureByPath ==
    /\ \A j \in 1..Len(results) :
          fate[results[j].name] = "writeThrow" =>
              (~results[j].success /\ results[j].error = writeErrorOf(results[j].name))
    /\ (entry = "all" /\ pc = "done") =>
          /\ returned.kind # "rejected"
          /\ \A p \in Providers : fate[p] = "writeThrow" => ResultsOf(p) # {}
    /\ (sched = "slice" /\ cliPc # "waiting" /\ options.writeFiles /\ ~CliFilesComplete) =>
          (cliPc = "exit1" /\ \E j \in 1..Len(results) : results[j].success)

\* a finished run whose results record the write failure of one provider
\* next to the success of another
C26_Witness ==
    /\ entry = "all" /\ pc = "done" /\ returned.kind = "summary"
    /\ \E j, k \in 1..Len(results) :
          /\ ~results[j].success /\ results[j].error = writeErrorOf(results[j].name)
          /\ results[k].success

StartedTasks == {p \in Providers : waveOf[p] >= 0}

\* the number of runScraper calls made so far
RunScraperCalls == SumSeq([j \in 1..Len(providerEntries) |-> calls[providerEntries[j]]]) + foreignCalls

\* C27: each runScraper invocation launches a browser of its own: no browser
\* is shared by two tasks, and none is used again by a later task.
C27_OwnBrowser ==
    /\ launches = RunScraperCalls
    /\ \A p \in StartedTasks : browserOf[p] \in 1..launches
    /\ \A p, q \in StartedTasks : p # q => browserOf[p] # browserOf[q]

\* two tasks of one wave running with two browsers after an earlier wave
\* has used two others
C27_Witness ==
    /\ entry = "all" /\ waves = 2 /\ launches = 4
    /\ Cardinality(RunningTasks) = 2
    /\ Cardinality({browserOf[p] : p \in Providers}) = 4

TaskTransitions ==
    {<<"Pending", "Running">>, <<"Running", "Succeeded">>, <<"Running", "Failed">>}

TaskStep ==
    \A p \in Providers :
        /\ taskState'[p] = taskState[p] \/ <<taskState[p], taskState'[p]>> \in TaskTransitions
        /\ Terminal(p) => (calls'[p] = calls[p] /\ browserOf'[p] = browserOf[p])

\* C28: each task goes Pending -> Running -> Succeeded or Failed; a terminal
\* state is final, and no task goes back to Pending.
C28_TaskLifecycle == [][TaskStep]_vars

\* a failed task stays Failed while a later wave runs
C28_Witness ==
    \E p, q \in Providers :
        /\ taskState[p] = "Failed" /\ taskState[q] = "Running"
        /\ waveOf[q] > waveOf[p]

\* the tasks at the 0-based positions j*k .. min((j+1)*k, n) - 1
WaveAt(j, k) ==
    SubSeq(providerEntries, j * k + 1, Min((j + 1) * k, Len(providerEntries)))

\* C29: with maxConcurrent = k >= 1, wave j (0-based) consists of exactly
\* the tasks at positions j*k .. min((j+1)*k, n) - 1 of the submission
\* order; with k >= n there is a single wave.
C29_WaveComposition ==
    (entry = "all" /\ options.hasMaxConcurrent /\ options.maxConcurrent >= 1) =>
        LET k == options.maxConcurrent
            n == Len(providerEntries)
        IN  /\ \A pos \in 1..n :
                  waveOf[providerEntries[pos]] >= 0 =>
                      waveOf[providerEntries[pos]] = (pos - 1) \div k
            /\ pc = "await" => inProgress = WaveAt(waves - 1, k)
            /\ pc = "done" => waves = CeilDiv(n, k)
            /\ k >= n => waves <= 1

\* the second wave of maxConcurrent = 3 over four providers is the last one alone
C29_Witness ==
    /\ entry = "all" /\ options.hasMaxConcurrent /\ options.maxConcurrent = 3
    /\ pc = "await" /\ waves = 2
    /\ inProgress = <<providerEntries[4]>>

AccumulatorStep ==
    entry = "all" =>
        /\ (results' # results \/ queue' # queue \/ i' # i \/ PendingTasks' # PendingTasks)
              => RunningTasks = {}
        /\ results' # results =>
              /\ results' = results \o BatchResults(inProgress, settled)
              /\ \A p \in Range(inProgress) : Terminal(p)

\* C30: the pending queue and the result accumulator change only between
\* waves: while a task is Running neither changes, and the results of a
\* wave are appended in one step after its last task has finished.
C30_MutatedBetweenWaves == [][AccumulatorStep]_vars

\* a task of the second wave has finished while another still runs, and the
\* accumulator still holds the first wave only
C30_Witness ==
    /\ entry = "all" /\ pc = "await" /\ waves = 2
    /\ RunningTasks # {}
    /\ \E p \in Range(inProgress) : p \in DOMAIN settled
    /\ Len(results) > 0
    /\ \A j \in 1..Len(results) : results[j].name \notin Range(inProgress)

\* the task results the call holds or has handed out
TaskResults ==
    {results[j] : j \in 1..Len(results)}
    \cup {settled[p].value : p \in {q \in DOMAIN settled : settled[q].status = "fulfilled"}}
    \cup (IF returned.kind = "result" THEN {returned.result} ELSE {})
    \cup (IF returned.kind = "summary"
          THEN {returned.results[j] : j \in 1..Len(returned.results)}
               \cup {returned.failedScrapers[j] : j \in 1..Len(returned.failedScrapers)}
          ELSE {})

SuccessShape(r) ==
    /\ DOMAIN r = {"name", "success", "duration", "channelCount", "channels"}
    /\ r.channelCount = Len(r.channels)

FailureShape(r) == DOMAIN r = {"name", "success", "duration", "error"}

\* C31: every task result is either a success with channels, channelCount =
\* the number of channels and no error, or a failure with the caught error
\* and neither channels nor channelCount; both carry name and duration.
C31_ResultShapes ==
    \A r \in TaskResults :
        /\ IF r.success THEN SuccessShape(r) ELSE FailureShape(r)
        /\ r.duration >= 0
        /\ (r.name \in Providers /\ ~r.success) => r.error = rejectionOf(r.name, fate[r.name])

\* a finished run holding a result of each shape
C31_Witness ==
    /\ pc = "done"
    /\ \E r, t \in TaskResults : r.success /\ r.channelCount > 0 /\ ~t.success

NeverLeavesLoop ==
    (entry = "all" /\ pc # "init" /\ options.hasMaxConcurrent) =>
        /\ (sched = "slice" /\ options.maxConcurrent < 0) =>
              (pc = "await" /\ i <= 0 /\ LoopContinues(sched, i, queue)
               /\ Len(results) < Len(providerEntries))
        /\ (sched = "queue" /\ options.maxConcurrent <= 0) =>
              (pc = "await" /\ queue = providerEntries /\ results = << >>)

(* ---------------------------------------------------------------------- *)
(* Properties of runScraper and retry                                      *)
(* ---------------------------------------------------------------------- *)
RunEnded == run.rpc = "done"

\* C8: every browser runScraper launched, and every page it opened, has been
\* closed when runScraper settles, on every exit path.
C8_SessionReleased ==
    RunEnded => (run.launched => (run.closeCalls >= 1 /\ run.pagesOpen = 0))

\* what holds instead: once setupBrowser has returned (`browser` is assigned),
\* every exit path closes the browser exactly once, and with it every page
SessionReleasedOnceHeld ==
    (RunEnded /\ run.browser) => (run.closeCalls = 1 /\ run.pagesOpen = 0)

\* C9: a navigation failure is retried like an extractor error: when
\* runScraper rejects with a navigation error under maxAttempts = n >= 1,
\* page.goto has been attempted n times.
C9_NavigationRetried ==
    (/\ RunEnded /\ retries >= 1
     /\ run.outcome.status = "rejected"
     /\ run.outcome.reason.kind = "NavigationError")
        => run.gotoCalls = retries

\* what holds instead: in the inside form every attempt navigates
NavigationRetriedInside ==
    (/\ runForm = "inside" /\ RunEnded /\ retries >= 1
     /\ run.outcome.status = "rejected"
     /\ run.outcome.reason.kind = "NavigationError")
        => run.gotoCalls = retries

\* C10: when fn fails exactly m < maxAttempts times and then succeeds, retry
\* resolves with the value of the successful call, after exactly m + 1 calls
\* of fn, and fn is not called again.
C10_RetrySucceedsAfterFailures ==
    failsFirst < retries =>
        /\ run.fnCalls <= failsFirst + 1
        /\ run.retryOutcome.status # "none" =>
              /\ run.retryOutcome.status = "fulfilled"
              /\ run.retryOutcome.value.call = failsFirst + 1
              /\ run.fnCalls = failsFirst + 1
              /\ run.fnFails = failsFirst

\* runScraper has settled after fn failed twice and succeeded on the third
\* of three attempts
C10_Witness ==
    /\ RunEnded /\ retries = 3 /\ failsFirst = 2
    /\ run.retryOutcome.status = "fulfilled" /\ run.fnCalls = 3
    /\ Len(run.waits) = 2

\* C11: when maxAttempts >= 1 and fn fails on every attempt, fn is called
\* exactly maxAttempts times and retry rejects with the very error the last
\* attempt threw, not a wrapped or a new one.
C11_RetryExhausted ==
    (retries >= 1 /\ failsFirst >= retries) =>
        /\ run.fnCalls <= retries
        /\ run.retryOutcome.status # "none" =>
              /\ run.retryOutcome.status = "rejected"
              /\ run.fnCalls = retries
              /\ Len(run.fnErrors) = retries
              /\ run.retryOutcome.reason = run.fnErrors[retries]
              /\ run.retryOutcome.reason.at = retries

\* retry has rejected after three failed attempts of three
C11_Witness ==
    /\ retries = 3 /\ failsFirst = 3 /\ run.retryOutcome.status = "rejected"
    /\ run.fnCalls = 3 /\ Len(run.fnErrors) = 3

\* C12: the wait after the failed attempt of 0-based index i, when attempts
\* remain, is baseDelay * 2^i; there is no wait before the first attempt and
\* none after the final failed attempt.
C12_BackoffSchedule ==
    /\ \A j \in 1..Len(run.waits) : run.waits[j] = RETRY_DELAY * (2 ^ (j - 1))
    /\ Len(run.waits) <= Max(retries - 1, 0)
    /\ run.fnCalls = 0 => run.waits = << >>
    /\ run.fnCalls >= 1 =>
          Len(run.waits) \in {run.fnCalls - 1, run.fnCalls}
    /\ Len(run.waits) = Min(run.fnFails, Max(retries - 1, 0))
    /\ run.retryOutcome.status = "rejected" => Len(run.waits) = Max(run.fnCalls - 1, 0)

\* retry has slept 1000 ms then 2000 ms and the third attempt failed too
C12_Witness ==
    /\ retries = 3 /\ run.fnFails = 3 /\ run.retryOutcome.status = "rejected"
    /\ run.waits = <<1000, 2000>>

RetrySettled == run.retryOutcome.status # "none"

\* C35: each runScraper invocation launches exactly one browser and closes
\* it exactly once, whatever the number of retry attempts and whatever the
\* outcome; retry attempts never launch an additional browser.
C35_OneBrowserPerRun ==
    /\ run.launchCalls <= 1 /\ run.closeCalls <= 1
    /\ RunEnded => (run.launchCalls = 1 /\ (run.launched => run.closeCalls = 1))

\* what holds instead: chromium.launch is called once however many attempts
\* retry makes, and the browser is closed once when setupBrowser returned it
OneLaunchHowEverManyAttempts ==
    /\ run.launchCalls <= 1 /\ run.closeCalls <= 1
    /\ RunEnded => run.launchCalls = 1
    /\ (RunEnded /\ run.browser) => run.closeCalls = 1
    /\ (RunEnded /\ run.launched /\ run.closeCalls = 0) =>
          run.outcome = Rejected(Err("ContextError", 0))

\* C36: in the runScraper whose retried block opens the page, every page an
\* attempt opened is closed before the next attempt opens one, also when
\* the attempt failed during navigation: at most one page is open at a time.
C36_OnePageAtATime ==
    runForm = "inside" => (run.pagesOpen <= 1 /\ run.mostOpen <= 1)

\* what holds instead: an attempt whose navigation succeeded closes its
\* page; the pages left open are those of the failed navigations, and the
\* browser's close closes them
PagesOfFailedNavigationsStayOpen ==
    runForm = "inside" =>
        /\ run.mostOpen <= run.fnFails + 1
        /\ failsFirst = 0 => run.mostOpen <= 1
        /\ (RunEnded /\ run.browser) => run.pagesOpen = 0

\* C37: when browser.newContext throws inside setupBrowser, after the
\* browser was launched, the browser is still closed before runScraper
\* rejects.
C37_ClosedWhenContextFails ==
    (RunEnded /\ run.outcome = Rejected(Err("ContextError", 0))) =>
        (run.launched /\ run.closeCalls = 1)

\* what holds instead: runScraper then rejects with the browser launched
\* and browser.close() never called
LeakedWhenContextFails ==
    (RunEnded /\ run.outcome = Rejected(Err("ContextError", 0))) =>
        (run.launched /\ ~run.browser /\ run.closeCalls = 0 /\ run.fnCalls = 0)

\* what runScraper's try block completed with: the channels of retry's
\* value, the error retry rejected with, or the error of the write
TryCompletion ==
    IF run.retryOutcome.status = "rejected" THEN run.retryOutcome
    ELSE IF outputFile /\ run.files = 0
         THEN Rejected(Err("OutputWriteError", run.retryOutcome.value.call))
         ELSE Fulfilled(Channels(run.retryOutcome.value.call))

\* C38: teardown does not change the outcome: when browser.close() fails in
\* the finally block, runScraper still resolves with the channels of a
\* successful extraction, and rejects with the extractor's error, not the
\* teardown error, when the extractor threw.
C38_TeardownKeepsOutcome ==
    (RunEnded /\ RetrySettled) => run.outcome = TryCompletion

\* what holds instead: the outcome is that of the try block, or the error
\* browser.close() threw
TeardownErrorReplacesOutcome ==
    (RunEnded /\ RetrySettled) =>
        run.outcome \in {TryCompletion, Rejected(Err("BrowserCloseError", 0))}


\* C34: retry called with maxAttempts <= 0 never invokes fn, performs no
\* wait and rejects with a fresh generic 'Retry failed' error; for
\* maxAttempts >= 1 that error is unreachable and fn is invoked at least
\* once and at most maxAttempts times.
C34_RetryWithoutAttempts ==
    /\ retries <= 0 =>
          /\ run.fnCalls = 0 /\ run.waits = << >> /\ run.fnErrors = << >>
          /\ RetrySettled => run.retryOutcome = Rejected(Err("RetryFailed", 0))
    /\ retries >= 1 =>
          /\ run.fnCalls <= retries
          /\ RetrySettled =>
                /\ run.fnCalls >= 1
                /\ run.retryOutcome.status = "rejected" =>
                      run.retryOutcome.reason.kind # "RetryFailed"

\* retry has rejected with 'Retry failed' without calling fn, and
\* runScraper has rejected with that error
C34_Witness ==
    /\ retries <= 0 /\ RunEnded /\ run.fnCalls = 0
    /\ run.retryOutcome = Rejected(Err("RetryFailed", 0))
    /\ run.outcome = Rejected(Err("RetryFailed", 0))

\* C13: for every provider name that matches no registered provider,
\* scrapeProvider rejects at once with the error 'Provider "<name>" not
\* found', and runScraper is never invoked.
C13_UnknownProviderRejected ==
    (/\ entry = "one" /\ pc # "init"
     /\ \A p \in Providers : toLowerCase(p) # toLowerCase(providerName))
        => /\ pc = "done"
           /\ returned = [kind |-> "rejected", error |-> NotFoundError(providerName)]
           /\ foreignCalls = 0
           /\ \A p \in Providers : calls[p] = 0

\* what holds instead: a name that is neither registered nor inherited from
\* Object.prototype is rejected at once and runScraper is not invoked
UnknownProviderRejectedOwn ==
    (/\ entry = "one" /\ pc # "init"
     /\ providerName \notin ObjectPrototypeKeys
     /\ \A p \in Providers : toLowerCase(p) # toLowerCase(providerName))
        => /\ pc = "done"
           /\ returned = [kind |-> "rejected", error |-> NotFoundError(providerName)]
           /\ foreignCalls = 0
           /\ \A p \in Providers : calls[p] = 0

(* ---------------------------------------------------------------------- *)
(* Properties of processData                                               *)
(* ---------------------------------------------------------------------- *)
\* step 1 of the pipeline keeps the record: number and name present and non-empty
Valid(item) == Truthy(item, "number") /\ Truthy(item, "name")

\* the channel of a kept record: its number, and the override of its
\* normalized name when the table has that key, else the normalized name
ChannelOf(item) ==
    LET n == normalizeChannelName(normForm, item.name)
    IN  Chan(item.number, IF n \in DOMAIN overrides THEN overrides[n] ELSE n)

\* the strictly increasing maps from the positions of out to those of in
Embeddings(out, in) ==
    {f \in [1..Len(out) -> 1..Len(in)] :
        \A j, k \in 1..Len(out) : j < k => f[j] < f[k]}

ChannelsOf(items) == [j \in 1..Len(items) |-> ChannelOf(items[j])]

\* C14: every channel processData emits has a non-empty number and a
\* non-empty name; a record whose name is empty after normalization is
\* dropped.
C14_Totality ==
    npc # "raw" =>
        \A j \in 1..Len(processed) :
            processed[j].number # << >> /\ processed[j].name # << >>

\* what holds instead: every emitted number is non-empty, and an emitted
\* name is empty only when the raw name is non-empty and normalizes to ""
EmittedNumbersNonEmpty ==
    npc # "raw" =>
        /\ \A j \in 1..Len(processed) : processed[j].number # << >>
        /\ (\E j \in 1..Len(processed) : processed[j].name = << >>) =>
              \E k \in 1..Len(data) :
                  /\ Valid(data[k])
                  /\ normalizeChannelName(normForm, data[k].name) = << >>

\* C15: processData applied to its own output, with the same overrides and
\* exclusion predicate, returns that output unchanged.
C15_Idempotent == npc = "reprocessed" => reprocessed = processed

\* what holds instead: the current processData is idempotent on outputs
\* without an empty name when every override value is what the pipeline
\* maps it to
IdempotentOnStableOverrides ==
    (/\ npc = "reprocessed" /\ normForm = "current"
     /\ \A j \in 1..Len(processed) : processed[j].name # << >>
     /\ \A k \in DOMAIN overrides :
           FinalName(overrides, normalizeChannelName(normForm, overrides[k])) = overrides[k])
        => reprocessed = processed

C17_ExclusionApplied ==
    npc # "raw" =>
        processed = ChannelsOf(SelectSeq(data,
                        LAMBDA item : Valid(item)
                                        /\ ~Excludes(excludeChannels, ChannelOf(item))))

\* what holds instead: the earlier processData applies the predicate, the
\* current one emits every valid record
ExclusionAppliedEarlier ==
    npc # "raw" =>
        IF normForm = "earlier"
        THEN processed = ChannelsOf(SelectSeq(data,
                            LAMBDA item : Valid(item)
                                            /\ ~Excludes(excludeChannels, ChannelOf(item))))
        ELSE processed = ChannelsOf(SelectSeq(data, Valid))

\* C18: the channels processData emits are those of a subsequence of the
\* raw records, in extraction order: nothing is re-sorted or duplicated.
C18_OrderPreserved ==
    npc # "raw" =>
        \E f \in Embeddings(processed, data) :
            \A j \in 1..Len(processed) :
                Valid(data[f[j]]) /\ processed[j] = ChannelOf(data[f[j]])

\* channel 50 was emitted before channel 5, as extracted, the empty object
\* between them dropped
C18_Witness ==
    /\ npc # "raw" /\ Len(data) = 3 /\ data[2] = NoFields
    /\ Len(processed) = 2
    /\ processed[1].number = <<"5", "0">> /\ processed[2].number = <<"5">>

ScenarioBRaw ==
    <<[number |-> <<"5">>, name |-> <<"(", "H", "D", ")", " ", "E", "S", "P", "N">>],
      [number |-> << >>, name |-> <<"B", "a", "d">>],
      [number |-> <<"6">>, name |-> <<"n", "i", "c", "k">>]>>

\* C19: the raw batch [{5, '(HD) ESPN'}, {'', 'Bad'}, {6, 'nick'}] with the
\* overrides {NICK: 'NICKELODEON'} and no exclusion yields exactly
\* [{5, 'ESPN'}, {6, 'NICKELODEON'}].
C19_ScenarioB ==
    (/\ npc # "raw" /\ data = ScenarioBRaw
     /\ overrides = dishOverrides /\ excludeChannels = "none")
        => processed = <<Chan(<<"5">>, <<"E", "S", "P", "N">>),
                         Chan(<<"6">>, <<"N", "I", "C", "K", "E", "L", "O", "D", "E", "O", "N">>)>>

\* the batch of the scenario has been processed by the current processData
C19_Witness ==
    /\ npc = "processed" /\ normForm = "current" /\ data = ScenarioBRaw
    /\ overrides = dishOverrides /\ excludeChannels = "none"
    /\ Len(processed) = 2

\* whether s has two adjacent whitespace characters, or one at either end
LooseSpace(s) ==
    \/ s # << >> /\ (IsSpace(s[1]) \/ IsSpace(s[Len(s)]))
    \/ \E j \in 1..(Len(s) - 1) : IsSpace(s[j]) /\ IsSpace(s[j + 1])

\* a name made of words and whitespace only
WordsAndSpaces(s) == \A j \in 1..Len(s) : IsWord(s[j]) \/ IsSpace(s[j])

\* the record of a one-record batch was emitted under its normalized name
NormalizedAlone ==
    /\ npc # "raw" /\ overrides = noOverrides /\ excludeChannels = "none"
    /\ Len(data) = 1 /\ Valid(data[1])

\* C32: normalizeChannelName collapses every run of whitespace between two
\* words into exactly one space, the words staying separated, and removes
\* leading and trailing whitespace: the result has no two adjacent
\* whitespace characters and none at either end.
C32_WhitespaceCollapsed ==
    NormalizedAlone =>
        /\ ~LooseSpace(processed[1].name)
        /\ WordsAndSpaces(data[1].name) =>
              processed[1].name = toUpperCase(Trim(CollapseSpaces(data[1].name)))

\* what holds instead: the current normalizeChannelName leaves no loose
\* whitespace, and in both forms a single space between two words is
\* kept while a tab or a longer run is removed, joining the words
WhitespaceRunsRemoved ==
    NormalizedAlone =>
        /\ normForm = "current" => ~LooseSpace(processed[1].name)
        /\ WordsAndSpaces(data[1].name) =>
              processed[1].name =
                 Trim(ReplaceMatches(normForm, toUpperCase(data[1].name)))
        /\ data[1].name = <<"a", "\t", "a">> => processed[1].name = <<"A", "A">>
        /\ data[1].name = <<"a", " ", "a">> => processed[1].name = <<"A", " ", "A">>

\* the numbers of the records in, in order
NumbersOf(items) == [j \in 1..Len(items) |-> items[j].number]

\* every emitted number is the number of the record it came from
NumbersKept ==
    npc # "raw" =>
        \E f \in Embeddings(processed, data) :
            \A j \in 1..Len(processed) :
                /\ Valid(data[f[j]])
                /\ processed[j].number = data[f[j]].number
                /\ DOMAIN processed[j] = {"number", "name"}

FrameStep ==
    /\ data' = data
    /\ overrides' = overrides
    /\ NumbersKept'
    /\ (npc' # "raw" /\ excludeChannels = "none") =>
          NumbersOf(processed') = NumbersOf(SelectSeq(data, Valid))

\* C39: processData changes only the name: every emitted number is the
\* number of the raw record it came from, not trimmed, split or
\* normalized, and the override table and the raw batch are left as they
\* were.
C39_OnlyNameChanges == [][FrameStep]_vars

\* a number range and a number with a leading space were emitted as they
\* were, next to a record whose name was replaced by its override
C39_Witness ==
    /\ npc = "processed" /\ overrides = dishOverrides /\ Len(processed) = 3
    /\ processed[1].number = <<"1", "0", "0", "-", "1", "0", "1">>
    /\ processed[2].number = <<" ", "7">>
    /\ processed[3].name # data[3].name

====
